---- MODULE Spec2Model ----
(***************************************************************************)
(* The OCR extraction pipeline of src/main.py.                             *)
(*                                                                         *)
(* Stage one (process_image) validates the triggering event, normalizes    *)
(* the geometry of the stored image, crops four fixed regions, runs OCR on *)
(* each crop, normalizes the text per field and publishes the result.      *)
(* Stage two (save_result) decodes a published message and persists the    *)
(* utility map as a JSON document.                                         *)
(*                                                                         *)
(* Text is a sequence of one-character strings, so that replace, split and *)
(* find are computed as Python computes them.  A stored image is its shape *)
(* (width, height, channels); pixel content is not modelled.               *)
(***************************************************************************)
EXTENDS Integers, Sequences, FiniteSets, TLC

VARIABLES
    event1,        \* the CloudEvent that triggers process_image
    ocrResp,       \* the OCR collaborator's annotations per cropped region
    srcBucket,     \* source bucket: object name -> stored image
    procBucket,    \* PROCESSED_BUCKET: object name -> stored crop
    topic,         \* messages published to the RESULT_NAME topic
    pc1,           \* position of the process_image invocation
    idx,           \* loop index of get_cropped_sections / detect_text
    image,         \* the ndarray returned by resize_image
    utility_map,   \* detect_text's utility_map under construction
    original_map,  \* detect_text's original_map under construction
    effects,       \* the side effects of the current process_image invocation
    err1,          \* the error the current process_image invocation raised
    runs1,         \* number of process_image invocations so far
    inImage,       \* the image the current invocation found in storage
    pc2,           \* position of each save_result invocation
    ev2,           \* the CloudEvent of each save_result invocation
    um2,           \* save_result's local utility_map
    fn2,           \* save_result's local filename
    localFile,     \* the file "content.json" in the working directory
    resultBucket,  \* RESULT_BUCKET: object name -> stored document
    wrote,         \* whether the invocation has opened content.json for writing
    uploads,       \* what the invocation uploaded: {[name, doc]}
    err2,          \* the error each save_result invocation raised
    deliveries     \* number of save_result invocations so far

vars1 == <<event1, ocrResp, srcBucket, procBucket, topic, pc1, idx, image,
           utility_map, original_map, effects, err1, runs1, inImage>>
vars2 == <<pc2, ev2, um2, fn2, localFile, resultBucket, wrote, uploads, err2,
           deliveries>>
vars == <<vars1, vars2>>

---------------------------------------------------------------------------
(* Bounds of the model.                                                    *)

\* process_image is invoked at most this many times on the same object.
MaxRuns == 3
\* save_result is invoked at most this many times in one process.
MaxDeliveries == 3
\* OCR texts are enumerated up to this length.
MaxTextLen == 4
\* Image sizes are enumerated within this distance of the target size.
GeomWindow == 20

---------------------------------------------------------------------------
(* Text.                                                                   *)

EmptyText == << >>

\* str.replace(ch, rep) for a one-character ch.
RECURSIVE Replace(_, _, _)
Replace(text, ch, rep) ==
    IF text = << >> THEN << >>
    ELSE (IF Head(text) = ch THEN rep ELSE <<Head(text)>>)
         \o Replace(Tail(text), ch, rep)

\* str.find(ch) >= 0
Contains(text, ch) == \E i \in 1..Len(text) : text[i] = ch

\* str.split(sep) for a one-character sep: the list of segments.
RECURSIVE Split(_, _)
Split(text, sep) ==
    IF Contains(text, sep)
    THEN LET i == CHOOSE k \in 1..Len(text) :
                     /\ text[k] = sep
                     /\ \A j \in 1..(k - 1) : text[j] # sep
         IN  <<SubSeq(text, 1, i - 1)>> \o Split(SubSeq(text, i + 1, Len(text)), sep)
    ELSE <<text>>

\* list[-1]
Last(list) == list[Len(list)]

\* All texts over an alphabet of length at most n.
Texts(alphabet, n) == UNION {[1..k -> alphabet] : k \in 0..n}

---------------------------------------------------------------------------
(* Constants of the program.                                               *)

expected_type1 == "google.cloud.storage.object.v1.finalized"
expected_type2 == "google.cloud.pubsub.topic.v1.messagePublished"
OtherType == "google.cloud.storage.object.v1.deleted"

TargetWidth == 1584
TargetHeight == 1224

cropped_file_names ==
    <<"renew_size", "nearest_crossed_street", "house_number", "renew_date">>

\* x, y, h, w
cropped_dims ==
    << <<171, 405, 57, 111>>, <<355, 125, 52, 351>>,
       <<1050, 200, 125, 200>>, <<111, 504, 43, 225>> >>

FieldNames == {cropped_file_names[i] : i \in 1..Len(cropped_file_names)}

\* A region name as text, for building object names.
NameText(f) ==
    CASE f = "renew_size" -> <<"r","e","n","e","w","_","s","i","z","e">>
      [] f = "nearest_crossed_street" ->
             <<"n","e","a","r","e","s","t","_","c","r","o","s","s","e","d","_",
               "s","t","r","e","e","t">>
      [] f = "house_number" -> <<"h","o","u","s","e","_","n","u","m","b","e","r">>
      [] f = "renew_date" -> <<"r","e","n","e","w","_","d","a","t","e">>

accept_set == { <<"1","/","2">>, <<"3","/","4">>, <<"1">> }

---------------------------------------------------------------------------
(* resize_image.                                                           *)

\* round(width / height, 3) == 1.294.  Python rounds the quotient to three
\* decimals; both ties, 1.2935 and 1.2945, round to 1.294 in binary floating
\* point, so the test is 1.2935 <= width/height <= 1.2945.
RatioOKTwoDecimals(width, height) ==
    129 * height <= 100 * width /\ 100 * width < 130 * height

RatioOK(width, height) ==
    2587 * height <= 2000 * width /\ 2000 * width <= 2589 * height

\* The resize with the target size given as (height, width).
ResizedSwapped(img) ==
    IF img.w > TargetWidth /\ img.h > TargetHeight
    THEN [img EXCEPT !.w = TargetHeight, !.h = TargetWidth]
    ELSE IF img.w < TargetWidth /\ img.h < TargetHeight
    THEN [img EXCEPT !.w = TargetHeight, !.h = TargetWidth]
    ELSE img

\* The shape after the two resize branches (lines 86-89).
Resized(img) ==
    IF img.w > TargetWidth /\ img.h > TargetHeight
    THEN [img EXCEPT !.w = TargetWidth, !.h = TargetHeight]
    ELSE IF img.w < TargetWidth /\ img.h < TargetHeight
    THEN [img EXCEPT !.w = TargetWidth, !.h = TargetHeight]
    ELSE img

---------------------------------------------------------------------------
(* get_cropped_sections.                                                   *)

Min(a, b) == IF a < b THEN a ELSE b
Max(a, b) == IF a > b THEN a ELSE b

\* image[y:y + h, x:x + w]: slicing clips to the array's extent.
CropShape(img, dim) ==
    LET x == dim[1]
        y == dim[2]
        h == dim[3]
        w == dim[4]
    IN  [w |-> Max(0, Min(x + w, img.w) - Min(x, img.w)),
         h |-> Max(0, Min(y + h, img.h) - Min(y, img.h)),
         ch |-> img.ch]

\* cropped_file_names[index] + "_" + file_name
CropName(f, file_name) == NameText(f) \o <<"_">> \o file_name

---------------------------------------------------------------------------
(* detect_text: the per-field rules.                                       *)

NormalizeRenewSizeNoAccept(text) ==
    LET t == Replace(text, "\"", << >>)
    IN  IF t = <<"1","6","2">> THEN <<"1","/","2">>
        ELSE IF t = <<"3","6","4">> THEN <<"3","/","4">>
        ELSE t

NormalizeRenewSize(text) ==
    LET t == Replace(text, "\"", << >>)
        m == IF t = <<"1","6","2">> THEN <<"1","/","2">>
             ELSE IF t = <<"3","6","4">> THEN <<"3","/","4">>
             ELSE t
    IN  IF m \notin accept_set THEN EmptyText ELSE m

NormalizeStreet(text) ==
    LET t == Replace(text, "\n", <<" ">>)
    IN  IF Contains(t, ".") /\ Len(Split(t, ".")) > 1
        THEN Split(t, ".")[2]
        ELSE t

\* house_number and renew_date
NormalizeLastToken(text) ==
    Last(Split(Replace(text, "\n", <<" ">>), " "))

NormalizeField(f, text) ==
    CASE f = "renew_size" -> NormalizeRenewSize(text)
      [] f = "nearest_crossed_street" -> NormalizeStreet(text)
      [] f = "house_number" -> NormalizeLastToken(text)
      [] f = "renew_date" -> NormalizeLastToken(text)
      [] OTHER -> text

---------------------------------------------------------------------------
(* Serialization.                                                          *)

\* A JSON text: ok says whether it parses, val is the value it parses to,
\* indent the indentation it was written with.
JsonDumps(value, indent) == [ok |-> TRUE, indent |-> indent, val |-> value]

\* A JSON object.
JsonObject(d) == [isDict |-> TRUE, d |-> d]

\* A JSON string.
JsonString(s) == [isStr |-> TRUE, s |-> s]

\* The message detect_text publishes (lines 177-183).
MessageData(um, file_name) ==
    JsonDumps(JsonObject([utility_map |-> um, filename |-> JsonString(file_name)]), 0)

---------------------------------------------------------------------------
(* Stage one: process_image.                                               *)

NoImage == [w |-> 0, h |-> 0, ch |-> 0]
NoMap == << >>

Effect(kind, f) == <<kind, f>>

\* Lines 52-61 without the type check: the event is taken as it comes.
ProcessImageStartUnchecked ==
    /\ pc1 \in {"idle", "done", "raised"}
    /\ runs1 < MaxRuns
    /\ runs1' = runs1 + 1
    /\ inImage' = srcBucket[event1.name]
    /\ idx' = 1
    /\ image' = NoImage
    /\ utility_map' = NoMap
    /\ original_map' = NoMap
    /\ effects' = << >>
    /\ err1' = "none"
    /\ pc1' = "resize"
    /\ UNCHANGED <<event1, ocrResp, srcBucket, procBucket, topic, vars2>>

\* process_image is invoked and checks the event type (lines 52-61).
ProcessImageStart ==
    /\ pc1 \in {"idle", "done", "raised"}
    /\ runs1 < MaxRuns
    /\ runs1' = runs1 + 1
    /\ inImage' = srcBucket[event1.name]
    /\ idx' = 1
    /\ image' = NoImage
    /\ utility_map' = NoMap
    /\ original_map' = NoMap
    /\ effects' = << >>
    /\ IF event1.type # expected_type1
       THEN pc1' = "raised" /\ err1' = "ValueError: event type"
       ELSE pc1' = "resize" /\ err1' = "none"
    /\ UNCHANGED <<event1, ocrResp, srcBucket, procBucket, topic, vars2>>

\* resize_image (lines 78-96): download, decode, check the ratio, resize,
\* write the image back over the source object.
ResizeImage ==
    /\ pc1 = "resize"
    /\ LET img == srcBucket[event1.name]
       IN  IF img.ch = 1
           THEN \* a grayscale image has a two-element shape: line 82 fails
                /\ pc1' = "raised"
                /\ err1' = "ValueError: unpack"
                /\ UNCHANGED <<srcBucket, image, effects, idx>>
           ELSE IF ~RatioOK(img.w, img.h)
           THEN /\ pc1' = "raised"
                /\ err1' = "ValueError: ratio"
                /\ UNCHANGED <<srcBucket, image, effects, idx>>
           ELSE /\ image' = Resized(img)
                /\ srcBucket' = [srcBucket EXCEPT ![event1.name] = Resized(img)]
                /\ effects' = Append(effects, Effect("overwrite", "source"))
                /\ idx' = 1
                /\ pc1' = "crop"
                /\ err1' = "none"
    /\ UNCHANGED <<event1, ocrResp, procBucket, topic, utility_map, original_map,
                   runs1, inImage, vars2>>

\* One iteration of the loop of get_cropped_sections (lines 114-124).
GetCroppedSection ==
    /\ pc1 = "crop"
    /\ LET f == cropped_file_names[idx]
       IN  /\ procBucket' = (CropName(f, event1.name)
                               :> CropShape(image, cropped_dims[idx])) @@ procBucket
           /\ effects' = Append(effects, Effect("crop", f))
    /\ IF idx = Len(cropped_dims)
       THEN pc1' = "ocr" /\ idx' = 1
       ELSE pc1' = "crop" /\ idx' = idx + 1
    /\ UNCHANGED <<event1, ocrResp, srcBucket, topic, image, utility_map,
                   original_map, err1, runs1, inImage, vars2>>

\* One iteration of the loop of detect_text that records the normalized text
\* as the original one.
DetectTextFieldNormalizedOriginal ==
    /\ pc1 = "ocr"
    /\ LET f == cropped_file_names[idx]
           annotations == ocrResp[f]
       IN  /\ IF annotations # << >>
              THEN /\ original_map' =
                          (f :> NormalizeField(f, annotations[1])) @@ original_map
                   /\ utility_map' =
                          (f :> NormalizeField(f, annotations[1])) @@ utility_map
              ELSE /\ original_map' = original_map
                   /\ utility_map' = (f :> EmptyText) @@ utility_map
           /\ effects' = Append(effects, Effect("ocr", f))
    /\ IF idx = Len(cropped_file_names)
       THEN pc1' = "publish" /\ idx' = 1
       ELSE pc1' = "ocr" /\ idx' = idx + 1
    /\ UNCHANGED <<event1, ocrResp, srcBucket, procBucket, topic, image, err1,
                   runs1, inImage, vars2>>

\* One iteration of the loop of detect_text (lines 142-176): the OCR call on
\* the staged crop and the field's rule.
DetectTextField ==
    /\ pc1 = "ocr"
    /\ LET f == cropped_file_names[idx]
           annotations == ocrResp[f]
       IN  /\ IF annotations # << >>
              THEN /\ original_map' = (f :> annotations[1]) @@ original_map
                   /\ utility_map' =
                          (f :> NormalizeField(f, annotations[1])) @@ utility_map
              ELSE /\ original_map' = original_map
                   /\ utility_map' = (f :> EmptyText) @@ utility_map
           /\ effects' = Append(effects, Effect("ocr", f))
    /\ IF idx = Len(cropped_file_names)
       THEN pc1' = "publish" /\ idx' = 1
       ELSE pc1' = "ocr" /\ idx' = idx + 1
    /\ UNCHANGED <<event1, ocrResp, srcBucket, procBucket, topic, image, err1,
                   runs1, inImage, vars2>>

\* Publishing without waiting for the future's result.
PublishResultNoWait ==
    /\ pc1 = "publish"
    /\ topic' = Append(topic,
           MessageData(("original_translation" :> original_map) @@ utility_map,
                       event1.name))
    /\ effects' = Append(effects, Effect("publish", "topic"))
    /\ pc1' = "done"
    /\ UNCHANGED <<event1, ocrResp, srcBucket, procBucket, image, utility_map,
                   original_map, idx, err1, runs1, inImage, vars2>>

\* detect_text assembles the message and publishes it (lines 177-186).
PublishResult ==
    /\ pc1 = "publish"
    /\ topic' = Append(topic,
           MessageData(("original_translation" :> original_map) @@ utility_map,
                       event1.name))
    /\ effects' = Append(effects, Effect("publish", "topic"))
    /\ pc1' = "await"
    /\ UNCHANGED <<event1, ocrResp, srcBucket, procBucket, image, utility_map,
                   original_map, idx, err1, runs1, inImage, vars2>>

\* future.result() returns: the transport acknowledged (lines 187, 65).
PublishAcknowledged ==
    /\ pc1 = "await"
    /\ effects' = Append(effects, Effect("ack", "topic"))
    /\ pc1' = "done"
    /\ UNCHANGED <<event1, ocrResp, srcBucket, procBucket, topic, image,
                   utility_map, original_map, idx, err1, runs1, inImage, vars2>>

\* future.result() raises: the publish failed (line 187).
PublishFailed ==
    /\ pc1 = "await"
    /\ pc1' = "raised"
    /\ err1' = "publish failed"
    /\ UNCHANGED <<event1, ocrResp, srcBucket, procBucket, topic, image,
                   utility_map, original_map, idx, effects, runs1, inImage, vars2>>

StageOneNext ==
    \/ ProcessImageStart
    \/ ResizeImage
    \/ GetCroppedSection
    \/ DetectTextField
    \/ PublishResult
    \/ PublishAcknowledged
    \/ PublishFailed

---------------------------------------------------------------------------
(* Stage two: save_result.                                                 *)

\* The save_result invocations that may run at once in one process.
Invs == {1, 2}

\* The empty (or absent) content.json: not a JSON text.
EmptyFile == [ok |-> FALSE, indent |-> 0, val |-> NoMap]

DotJson == <<".", "j", "s", "o", "n">>

\* The event data the transport delivers for published bytes: their base64
\* encoding, well padded and without foreign characters.
PubSubData(bytes) == [padded |-> TRUE, stray |-> FALSE, bytes |-> bytes]

PubSubEvent(bytes) == [type |-> expected_type2, data |-> PubSubData(bytes)]

\* base64.b64decode(data) (line 212): characters outside the alphabet are
\* discarded; what is left must be correctly padded.
B64Decode(data) == [ok |-> data.padded, bytes |-> data.bytes]

\* json.loads(message_data) (line 213)
JsonLoads(bytes) == [ok |-> bytes.ok, val |-> bytes.val]

NoMessage == [ok |-> FALSE, utility_map |-> NoMap, filename |-> JsonString(EmptyText)]

\* The try block with dict.get in place of the subscripts: a missing key
\* yields a default.
DecodeMessageLenient(data) ==
    LET decoded == B64Decode(data)
        loaded == JsonLoads(decoded.bytes)
        message == loaded.val
    IN  IF ~decoded.ok THEN NoMessage
        ELSE IF ~loaded.ok THEN NoMessage
        ELSE IF ~message.isDict THEN NoMessage
        ELSE [ok |-> TRUE,
              utility_map |-> IF "utility_map" \in DOMAIN message.d
                              THEN message.d.utility_map ELSE NoMap,
              filename |-> IF "filename" \in DOMAIN message.d
                           THEN message.d.filename ELSE JsonString(EmptyText)]

\* The try block of save_result (lines 211-218): ok is FALSE where it raises.
DecodeMessage(data) ==
    LET decoded == B64Decode(data)
        loaded == JsonLoads(decoded.bytes)
        message == loaded.val
    IN  IF ~decoded.ok THEN NoMessage                            \* binascii.Error
        ELSE IF ~loaded.ok THEN NoMessage                        \* JSONDecodeError
        ELSE IF ~message.isDict THEN NoMessage                   \* TypeError
        ELSE IF "utility_map" \notin DOMAIN message.d THEN NoMessage  \* KeyError
        ELSE IF "filename" \notin DOMAIN message.d THEN NoMessage     \* KeyError
        ELSE [ok |-> TRUE,
              utility_map |-> message.d.utility_map,
              filename |-> message.d.filename]

\* The name with its extension replaced, as os.path.splitext would split it.
ResultFilenameSplitExt(filename) ==
    LET n == Len(filename)
        seps == {k \in 1..n : filename[k] = "/"}
        dots == {k \in 1..n : filename[k] = "."}
        sep == IF seps = {} THEN 0 ELSE CHOOSE k \in seps : \A j \in seps : j <= k
        dot == IF dots = {} THEN 0 ELSE CHOOSE k \in dots : \A j \in dots : j <= k
    IN  IF dot > sep /\ \E k \in (sep + 1)..(dot - 1) : filename[k] # "."
        THEN SubSeq(filename, 1, dot - 1) \o DotJson
        ELSE filename \o DotJson

\* filename.split(".")[0] + ".json" (lines 229-230)
ResultFilename(filename) == Split(filename, ".")[1] \o DotJson

\* save_result is invoked with an event: the type check and the try block
\* (lines 203-220).
SaveResultStart(i, ev) ==
    /\ pc2[i] \in {"idle", "done", "raised"}
    /\ deliveries < MaxDeliveries
    /\ deliveries' = deliveries + 1
    /\ ev2' = [ev2 EXCEPT ![i] = ev]
    /\ wrote' = [wrote EXCEPT ![i] = FALSE]
    /\ uploads' = [uploads EXCEPT ![i] = {}]
    /\ IF ev.type # expected_type2
       THEN /\ pc2' = [pc2 EXCEPT ![i] = "raised"]
            /\ err2' = [err2 EXCEPT ![i] = "ValueError: event type"]
            /\ um2' = [um2 EXCEPT ![i] = NoMap]
            /\ fn2' = [fn2 EXCEPT ![i] = JsonString(EmptyText)]
       ELSE LET m == DecodeMessage(ev.data)
            IN  /\ um2' = [um2 EXCEPT ![i] = m.utility_map]
                /\ fn2' = [fn2 EXCEPT ![i] = m.filename]
                /\ IF m.ok
                   THEN /\ pc2' = [pc2 EXCEPT ![i] = "open"]
                        /\ err2' = [err2 EXCEPT ![i] = "none"]
                   ELSE /\ pc2' = [pc2 EXCEPT ![i] = "raised"]
                        /\ err2' = [err2 EXCEPT ![i] = "ValueError: malformed message"]
    /\ UNCHANGED <<localFile, resultBucket, vars1>>

\* open("content.json", "w") (line 225): the file is truncated.
OpenContent(i) ==
    /\ pc2[i] = "open"
    /\ localFile' = EmptyFile
    /\ wrote' = [wrote EXCEPT ![i] = TRUE]
    /\ pc2' = [pc2 EXCEPT ![i] = "write"]
    /\ UNCHANGED <<ev2, um2, fn2, resultBucket, uploads, err2, deliveries, vars1>>

\* outfile.write(utility_json) and the close that ends the with block
\* (lines 222, 226).
WriteContent(i) ==
    /\ pc2[i] = "write"
    /\ localFile' = JsonDumps(um2[i], 4)
    /\ pc2' = [pc2 EXCEPT ![i] = "upload"]
    /\ UNCHANGED <<ev2, um2, fn2, resultBucket, wrote, uploads, err2, deliveries,
                   vars1>>

\* Lines 228-234: the result name, and the upload of content.json as it is
\* on disk at that moment.
UploadResult(i) ==
    /\ pc2[i] = "upload"
    /\ IF ~fn2[i].isStr
       THEN \* filename.split on a value that is no string
            /\ pc2' = [pc2 EXCEPT ![i] = "raised"]
            /\ err2' = [err2 EXCEPT ![i] = "AttributeError: split"]
            /\ UNCHANGED <<resultBucket, uploads>>
       ELSE /\ resultBucket' = (ResultFilename(fn2[i].s) :> localFile) @@ resultBucket
            /\ uploads' = [uploads EXCEPT
                             ![i] = {[name |-> ResultFilename(fn2[i].s),
                                      doc |-> localFile]}]
            /\ pc2' = [pc2 EXCEPT ![i] = "done"]
            /\ err2' = err2
    /\ UNCHANGED <<ev2, um2, fn2, localFile, wrote, deliveries, vars1>>

---------------------------------------------------------------------------
(* Inputs.                                                                 *)

FileA == <<"a", ".", "j", "p", "g">>
FileAB == <<"a", ".", "b", ".", "j", "p", "g">>
FileDir == <<"d", ".", "1", "/", "a", ".", "j", "p", "g">>
FileNoExt == <<"a">>

LotAElmStreet ==
    <<"L","o","t"," ","A","."," ","E","l","m"," ","S","t","r","e","e","t">>
ElmStreet == <<"E","l","m"," ","S","t","r","e","e","t">>

\* Every character the inputs are written in.
Chars ==
    {"a", "b", "d", "e", "g", "j", "l", "m", "o", "p", "r", "t", "A", "E", "L",
     "S", "1", "2", "3", "4", "5", "6", "8", "/", ".", " ", "\n", "\"", "_"}

TargetImage == [w |-> TargetWidth, h |-> TargetHeight, ch |-> 3]

\* Stored images: at the target size, larger, smaller, of another ratio,
\* and a grayscale one.
BaseImages ==
    { TargetImage,
      [w |-> 2 * TargetWidth, h |-> 2 * TargetHeight, ch |-> 3],
      [w |-> 792, h |-> 612, ch |-> 3],
      [w |-> 1600, h |-> 1200, ch |-> 3],
      [w |-> TargetWidth, h |-> TargetHeight, ch |-> 1] }

\* Images of every size near the target size.
WindowImages ==
    { [w |-> w, h |-> h, ch |-> 3] :
        w \in (TargetWidth - GeomWindow)..(TargetWidth + GeomWindow),
        h \in (TargetHeight - GeomWindow)..(TargetHeight + GeomWindow) }

NoAnnotations == [f \in FieldNames |-> << >>]

\* A typical first annotation per region.
TypicalText(f) ==
    CASE f = "renew_size" -> <<"\"", "1", "6", "2", "\"">>
      [] f = "nearest_crossed_street" -> LotAElmStreet
      [] f = "house_number" -> <<"1", "2", " ", "4", "5">>
      [] f = "renew_date" -> <<"1", "/", "2", "\n", "3", "/", "4">>

\* Annotation present or absent, per region.
PresenceResponses ==
    [FieldNames -> {0, 1}]

ResponseOf(present) ==
    [f \in FieldNames |-> IF present[f] = 1 THEN <<TypicalText(f)>> ELSE << >>]

\* The characters the texts of each region are enumerated over.
Alphabet(f) ==
    CASE f = "renew_size" -> {"1", "2", "6", "/", "\""}
      [] f = "nearest_crossed_street" -> {"a", ".", " ", "\n"}
      [] f = "house_number" -> {"4", "5", " ", "\n"}
      [] f = "renew_date" -> {"1", "/", " ", "\n"}

\* Texts named by the documentation of the rules.
Examples(f) ==
    CASE f = "renew_size" ->
             { <<"1","6","2">>, <<"3","6","4">>, <<"5","/","8">>, <<"1">>,
               <<"\"","3","6","4","\"">>, <<"3","/","4">>, <<"1","6","2","\n">> }
      [] f = "nearest_crossed_street" ->
             { LotAElmStreet, <<"L","o","t","\n","A",".","E","l","m",".","S","t">> }
      [] f = "house_number" -> { <<"1","2","3"," ","S","t"," ","4","5">> }
      [] f = "renew_date" -> { <<"1","/","2","/","3">> }

\* One region with an enumerated text, the others without annotation; the
\* response may carry a second annotation, which is never read.
TextResponses ==
    UNION { { [g \in FieldNames |-> IF g = f THEN r ELSE << >>] :
                r \in { <<t>> : t \in Texts(Alphabet(f), MaxTextLen) \cup Examples(f) }
                      \cup { <<t, <<"a">> >> : t \in Examples(f) } } :
            f \in FieldNames }

StorageEvent(type, name) == [type |-> type, bucket |-> "uploads", name |-> name]

Input(type, name, img, ocr) ==
    [event |-> StorageEvent(type, name), image |-> img, ocr |-> ocr]

BaseInputs ==
    { Input(t, n, img, ResponseOf(p)) :
        t \in {expected_type1, OtherType}, n \in {FileA, FileAB},
        img \in BaseImages, p \in PresenceResponses }

GeometryInputs ==
    { Input(expected_type1, FileA, img, NoAnnotations) : img \in WindowImages }

TextInputs ==
    { Input(expected_type1, FileA, TargetImage, ocr) : ocr \in TextResponses }

PipelineInputs ==
    { Input(t, n, img, ResponseOf(p)) :
        t \in {expected_type1, OtherType}, n \in {FileA, FileAB, FileDir},
        img \in BaseImages,
        p \in {[f \in FieldNames |-> 1], [f \in FieldNames |-> 0],
               [f \in FieldNames |-> IF f = "renew_size" THEN 1 ELSE 0]} }

\* What detect_text computes for given responses, in closed form (lines
\* 140-177); it writes the messages save_result is tried on.
UtilityMapOf(ocr) ==
    ("original_translation" :>
        [f \in {g \in FieldNames : ocr[g] # << >>} |-> ocr[f][1]])
    @@ [f \in FieldNames |->
          IF ocr[f] # << >> THEN NormalizeField(f, ocr[f][1]) ELSE EmptyText]

UMFull == UtilityMapOf(ResponseOf([f \in FieldNames |-> 1]))
UMNone == UtilityMapOf(NoAnnotations)

\* Event data of well-formed messages.
GoodData ==
    { PubSubData(MessageData(UMFull, FileA)),
      PubSubData(MessageData(UMNone, FileA)),
      PubSubData(MessageData(UMNone, FileAB)),
      PubSubData(MessageData(UMFull, FileDir)),
      PubSubData(MessageData(UMNone, FileNoExt)) }

BaseObject == [utility_map |-> UMFull, filename |-> JsonString(FileA)]

\* Event data that is no published message: wrongly padded base64, base64
\* with foreign characters, bytes that are no JSON, JSON that is no object,
\* objects without one of the keys, and a filename that is no string.
OddData ==
    { [padded |-> FALSE, stray |-> FALSE, bytes |-> MessageData(UMFull, FileA)],
      [padded |-> TRUE, stray |-> TRUE, bytes |-> MessageData(UMFull, FileA)],
      PubSubData([ok |-> FALSE, indent |-> 0, val |-> JsonObject(BaseObject)]),
      PubSubData(JsonDumps([isDict |-> FALSE, d |-> NoMap], 0)),
      PubSubData(JsonDumps(JsonObject([utility_map |-> UMFull]), 0)),
      PubSubData(JsonDumps(JsonObject([filename |-> JsonString(FileA)]), 0)),
      PubSubData(JsonDumps(JsonObject(NoMap), 0)),
      PubSubData(JsonDumps(JsonObject([utility_map |-> UMFull,
                                       filename |-> [isStr |-> FALSE, s |-> EmptyText]]), 0)) }

EventsTwo ==
    { [type |-> expected_type2, data |-> d] : d \in GoodData \cup OddData }
    \cup { [type |-> OtherType, data |-> PubSubData(MessageData(UMFull, FileA))] }

NoEvent == [type |-> "none", data |-> PubSubData(EmptyFile)]

---------------------------------------------------------------------------
(* Specifications.                                                         *)

InitOne(inp) ==
    /\ event1 = inp.event
    /\ ocrResp = inp.ocr
    /\ srcBucket = (inp.event.name :> inp.image)
    /\ procBucket = NoMap
    /\ topic = << >>
    /\ pc1 = "idle"
    /\ idx = 1
    /\ image = NoImage
    /\ utility_map = NoMap
    /\ original_map = NoMap
    /\ effects = << >>
    /\ err1 = "none"
    /\ runs1 = 0
    /\ inImage = NoImage

InitTwo ==
    /\ pc2 = [i \in Invs |-> "idle"]
    /\ ev2 = [i \in Invs |-> NoEvent]
    /\ um2 = [i \in Invs |-> NoMap]
    /\ fn2 = [i \in Invs |-> JsonString(EmptyText)]
    /\ localFile = EmptyFile
    /\ resultBucket = NoMap
    /\ wrote = [i \in Invs |-> FALSE]
    /\ uploads = [i \in Invs |-> {}]
    /\ err2 = [i \in Invs |-> "none"]
    /\ deliveries = 0

StageTwoSteps ==
    \E i \in Invs : OpenContent(i) \/ WriteContent(i) \/ UploadResult(i)

\* No save_result invocation is under way.
Quiet2 == \A i \in Invs : pc2[i] \in {"idle", "done", "raised"}

\* The messages on the topic.
Published == {topic[k] : k \in 1..Len(topic)}

\* Stage one alone, on every input.
InitExtract == (\E inp \in BaseInputs \cup GeometryInputs \cup TextInputs : InitOne(inp)) /\ InitTwo
SpecExtract == InitExtract /\ [][StageOneNext]_vars

\* Stage two alone: invocations of one process, running at once, on events
\* of every kind.
InitPersist == InitOne(Input(expected_type1, FileA, TargetImage, NoAnnotations)) /\ InitTwo
NextPersist ==
    \/ \E i \in Invs, ev \in EventsTwo : SaveResultStart(i, ev)
    \/ StageTwoSteps
SpecPersist == InitPersist /\ [][NextPersist]_vars

\* The pipeline: stage one, re-invoked on the same object, and stage two on
\* the messages stage one published, delivered one at a time, each any
\* number of times.
Init == (\E inp \in PipelineInputs : InitOne(inp)) /\ InitTwo
Next ==
    \/ StageOneNext
    \/ \E i \in Invs, m \in Published : Quiet2 /\ SaveResultStart(i, PubSubEvent(m))
    \/ StageTwoSteps
Spec == Init /\ [][Next]_vars

---------------------------------------------------------------------------
(* Properties of stage one, under SpecExtract.                             *)

Name1 == event1.name

\* The side effects of a complete run up to the publish, in order.
EffectsBeforePublish ==
    <<Effect("overwrite", "source")>>
    \o [k \in 1..Len(cropped_file_names) |-> Effect("crop", cropped_file_names[k])]
    \o [k \in 1..Len(cropped_file_names) |-> Effect("ocr", cropped_file_names[k])]

\* The utility_map of a published message.
UtilityMapIn(m) == m.val.d.utility_map

\* C1: when the event type is not the expected one, or the rounded ratio of
\* the decoded image is not 1.294, the invocation ends raised, and it has
\* overwritten nothing, uploaded no crop, called no OCR and published
\* nothing.
C1_RejectedWithoutSideEffect ==
    /\ (pc1 # "idle" /\ event1.type # expected_type1)
          => /\ pc1 = "raised"
             /\ effects = << >>
             /\ srcBucket[Name1] = inImage /\ procBucket = NoMap /\ topic = << >>
    /\ (pc1 # "idle" /\ ~RatioOK(inImage.w, inImage.h))
          => /\ pc1 \in {"resize", "raised"}
             /\ effects = << >>
             /\ srcBucket[Name1] = inImage /\ procBucket = NoMap /\ topic = << >>

\* An image of another ratio was rejected on the second invocation too.
C1_Witness ==
    /\ pc1 = "raised" /\ err1 = "ValueError: ratio" /\ runs1 = 2
    /\ event1.type = expected_type1 /\ effects = << >>

\* Neither both dimensions above the target, nor both below, nor both equal.
Straddles(img) ==
    ~ \/ (img.w > TargetWidth /\ img.h > TargetHeight)
      \/ (img.w < TargetWidth /\ img.h < TargetHeight)
      \/ (img.w = TargetWidth /\ img.h = TargetHeight)

\* C4: every image that passes the ratio check is returned, and written
\* back, 1584 wide and 1224 high; no image that passes the check has one
\* dimension above the target and the other below or equal.
C4_AcceptedImageAtTargetSize ==
    /\ effects # << >>
          => /\ image.w = TargetWidth /\ image.h = TargetHeight
             /\ srcBucket[Name1].w = TargetWidth
             /\ srcBucket[Name1].h = TargetHeight
    /\ (pc1 # "idle" /\ inImage.ch # 1 /\ RatioOK(inImage.w, inImage.h))
          => ~Straddles(inImage)

\* An image one pixel row and column larger than the target was accepted and
\* resized.
C4_Witness ==
    /\ inImage.w = TargetWidth + 1 /\ inImage.h = TargetHeight + 1
    /\ pc1 = "crop" /\ image.w = TargetWidth /\ image.h = TargetHeight

\* C5: process_image returns normally only after the publish was
\* acknowledged; the publish comes after the overwrite, the four crops and
\* the four OCR calls; a failed or outstanding acknowledgment is no success.
C5_SuccessOnlyAfterAck ==
    /\ pc1 = "done"
          => effects = EffectsBeforePublish
                         \o <<Effect("publish", "topic"), Effect("ack", "topic")>>
    /\ \A k \in 1..Len(effects) :
          effects[k] = Effect("publish", "topic")
             => SubSeq(effects, 1, k - 1) = EffectsBeforePublish
    /\ err1 = "publish failed" => pc1 = "raised"
    /\ pc1 = "await" => effects = EffectsBeforePublish \o <<Effect("publish", "topic")>>

\* A run ended in success.
C5_Witness ==
    pc1 = "done" /\ Len(topic) = 1 /\ Len(effects) = Len(EffectsBeforePublish) + 2

\* C6: in every published message the keys of utility_map are the four
\* region names and original_translation; each region maps to a text;
\* original_translation has a region's key exactly when OCR returned an
\* annotation for it, with the first annotation's raw text; a region without
\* annotation has the empty text.
C6_PublishedShape ==
    \A m \in Published :
        LET um == UtilityMapIn(m)
        IN  /\ DOMAIN um = FieldNames \cup {"original_translation"}
            /\ \A f \in FieldNames : um[f] \in Seq(Chars)
            /\ DOMAIN um.original_translation = {f \in FieldNames : ocrResp[f] # << >>}
            /\ \A f \in DOMAIN um.original_translation :
                  um.original_translation[f] = ocrResp[f][1]
            /\ \A f \in FieldNames : ocrResp[f] = << >> => um[f] = EmptyText

\* A message was published for which OCR annotated renew_size, whose rule
\* changes the text, and not house_number.
C6_Witness ==
    \E m \in Published :
        /\ "renew_size" \in DOMAIN UtilityMapIn(m).original_translation
        /\ UtilityMapIn(m).original_translation["renew_size"] # UtilityMapIn(m)["renew_size"]
        /\ "house_number" \notin DOMAIN UtilityMapIn(m).original_translation

NotQuote(c) == c # "\""

\* The text with "162" and "364" read as fractions.
MisreadMapped(t) ==
    IF t = <<"1","6","2">> THEN <<"1","/","2">>
    ELSE IF t = <<"3","6","4">> THEN <<"3","/","4">>
    ELSE t

\* C9 as stated: nearest_crossed_street is the raw text with newlines as
\* spaces if that has no period, and otherwise its second period-separated
\* segment, so that "Lot A. Elm Street" gives exactly "Elm Street".
C9_StreetAsStated ==
    \A m \in Published :
        ocrResp["nearest_crossed_street"] # << >> =>
            LET raw == ocrResp["nearest_crossed_street"][1]
                t == Replace(raw, "\n", <<" ">>)
                v == UtilityMapIn(m)["nearest_crossed_street"]
            IN  /\ Contains(t, ".") => v = Split(t, ".")[2]
                /\ ~Contains(t, ".") => v = t
                /\ raw = LotAElmStreet => v = ElmStreet

\* C10: renew_size is the raw text without double quotes, with "162" read
\* as "1/2" and "364" as "3/4", if that is one of "1/2", "3/4" and "1", and
\* the empty text otherwise.
C10_RenewSizeAccepted ==
    \A m \in Published :
        ocrResp["renew_size"] # << >> =>
            LET mapped == MisreadMapped(SelectSeq(ocrResp["renew_size"][1], NotQuote))
                v == UtilityMapIn(m)["renew_size"]
            IN  /\ v \in accept_set \cup {EmptyText}
                /\ v = IF mapped \in accept_set THEN mapped ELSE EmptyText

\* A quoted misread was published as the fraction.
C10_Witness ==
    \E m \in Published :
        /\ ocrResp["renew_size"] = << <<"\"","1","6","2">> >>
        /\ UtilityMapIn(m)["renew_size"] = <<"1","/","2">>

---------------------------------------------------------------------------
(* Properties of stage two, under SpecPersist.                             *)

\* The event data does not hold a message with both keys.
Malformed(data) ==
    \/ ~data.padded
    \/ ~data.bytes.ok
    \/ ~data.bytes.val.isDict
    \/ "utility_map" \notin DOMAIN data.bytes.val.d
    \/ "filename" \notin DOMAIN data.bytes.val.d

\* C2: an upload happens only for an event of the expected type whose data
\* decodes, parses and holds both keys; an invocation with another event
\* type or with malformed data ends raised, without having opened
\* content.json and without an upload.
C2_WriteOnlyIfWellFormed ==
    \A i \in Invs :
        /\ (uploads[i] # {} \/ wrote[i])
              => ev2[i].type = expected_type2 /\ ~Malformed(ev2[i].data)
        /\ (pc2[i] # "idle" /\ (ev2[i].type # expected_type2 \/ Malformed(ev2[i].data)))
              => pc2[i] = "raised" /\ ~wrote[i] /\ uploads[i] = {}

\* One invocation was refused for a missing key while the other uploaded.
C2_Witness ==
    \E i, j \in Invs :
        /\ pc2[i] = "raised" /\ ev2[i].type = expected_type2
        /\ ev2[i].data.padded /\ ev2[i].data.bytes.ok /\ Malformed(ev2[i].data)
        /\ uploads[j] # {}

\* C3 as stated: of two invocations with different payloads, each uploads,
\* under the name derived from its own filename, its own utility_map.
C3_UploadsOwnDocument ==
    \A i, j \in Invs :
        (i # j /\ ev2[i].data # ev2[j].data) =>
            \A u \in uploads[i] :
                /\ u.name = ResultFilename(fn2[i].s)
                /\ u.doc = JsonDumps(um2[i], 4)

\* An invocation uploaded the other invocation's utility_map, not its own.
C3_Witness ==
    \E i, j \in Invs :
        /\ i # j /\ um2[i] # um2[j]
        /\ \E u \in uploads[i] : u.doc = JsonDumps(um2[j], 4)

\* C7 as stated: the document is stored under the filename with only its
\* extension replaced by ".json".
C7_ExtensionReplaced ==
    \A i \in Invs :
        \A u \in uploads[i] : u.name = ResultFilenameSplitExt(fn2[i].s)

---------------------------------------------------------------------------
(* Properties of the pipeline, under Spec.                                 *)

\* C8: once a run of both stages has persisted the document, re-running
\* stage one and re-delivering its message changes neither the document nor
\* the set of object names, and a later run of stage one is not refused.
C8_Idempotent ==
    [][ resultBucket # NoMap =>
          /\ resultBucket' = resultBucket
          /\ DOMAIN srcBucket' = DOMAIN srcBucket
          /\ DOMAIN procBucket' = DOMAIN procBucket
          /\ pc1' = "raised" => err1' = "publish failed" ]_vars

\* Both stages ran twice, on an object whose first run published.
C8_Witness ==
    /\ runs1 = 2 /\ pc1 = "done" /\ Len(topic) = 2
    /\ deliveries = 2 /\ Quiet2 /\ resultBucket # NoMap

====
